---- MODULE Spec2Model ----
(***************************************************************************)
(* Client-side event feed of OBD_Logger (statics/script.js): a page polls  *)
(* GET /events, reconciles the returned snapshot into a list of cards,     *)
(* keeps the expansion flags in localStorage and removes events with a     *)
(* fire-and-forget DELETE.                                                 *)
(*                                                                         *)
(* script.js holds two revisions of the engine one after the other:        *)
(*   revision "A"  lines   1-164  (renderEvents does both create/update)   *)
(*   revision "B"  lines 166-347  (createCard / updateCardStatus split)    *)
(* Both are modelled; the variable rev says which one the page runs.       *)
(*                                                                         *)
(* Event keys are timestamp strings whose lexical order is their           *)
(* chronological order; they are modelled by 1, 2, ... with the usual <.   *)
(***************************************************************************)
EXTENDS Integers, Sequences, FiniteSets, TLC

\* ------------------------------------------------------------------ bounds
MaxKey      == 2   \* event keys the backend issues to a page somebody uses
MaxPollKey  == 3   \* event keys the backend issues to a page left alone
MaxInflight == 2   \* GET /events requests outstanding at once
MaxOps      == 2   \* interval ticks and user operations per run
MaxTsLen    == 7   \* tokens of a key handed to formatTimestamp
MaxInput    == 3   \* characters typed into the label field of a card
MaxFeedKey  == 2   \* event keys of a feed that may report any status
MaxRefLen   == 3   \* tokens of a key whose artifact references are built
MaxIter     == 4   \* iterations of the while loop of upload.sh
MaxFiles    == 2   \* ./*.csv files in the directory of upload.sh

Keys == 1..(IF MaxKey > MaxPollKey THEN MaxKey ELSE MaxPollKey)
Revs == {"A", "B"}

VARIABLES
    rev,            \* which revision of script.js the page runs
    events,         \* backend: key -> status, the body of GET /events
    issued,         \* backend: number of keys issued so far
    inflight,       \* responses of GET /events not yet delivered
    pending,        \* DELETE /events/remove/k requests not yet handled
    localStorage,   \* the item "expandedItems" of localStorage
    running,        \* the script got past its top-level statements
    expandedItems,  \* script.js:1 / :166
    previousKeys,   \* script.js:2 / :167
    container,      \* children of #log-container, in document order
    card,           \* the card element of each key in container
    mut,            \* view mutations of the last reconciliation
    lastOp,         \* the last operation of the page, its key, and the
                    \* snapshot reconciled last if no user operation followed
    removed,        \* keys removeItem has run on since the page was loaded
    nOps,           \* interval ticks and user operations so far
    tsKey,          \* formatTimestamp: the argument norm_ts
    tsDate,         \* formatTimestamp: what new Date(formatted) came to
    tsOut,          \* formatTimestamp: how the call ended, and its value
    labelOverride,  \* label edit: LabelOverride, key -> label
    labelStore,     \* label edit: the persisted copy of LabelOverride
    label,          \* label edit: the label each card displays
    refKey,         \* artifact references: the key of the card being built
    refOut,         \* artifact references: what the card was built with
    shPc,           \* upload.sh: where the script is
    shIter,         \* upload.sh: iterations of the while loop begun
    shFound,        \* upload.sh: scan_wifi succeeded in this iteration
    shConnected,    \* upload.sh: connect_home_wifi returned 0 in this iteration
    shCalls,        \* upload.sh: calls of upload_csv_files so far
    shFiles,        \* upload.sh: ./*.csv files the for loop has still to take
    shCodes         \* upload.sh: the HTTP status curl gave for each file

pageVars == << rev, events, issued, inflight, pending, localStorage, running,
               expandedItems, previousKeys, container, card, mut, lastOp,
               removed, nOps >>

codecVars == << tsKey, tsDate, tsOut >>

labelVars == << labelOverride, labelStore, label >>

refVars == << refKey, refOut >>

shVars == << shPc, shIter, shFound, shConnected, shCalls, shFiles, shCodes >>

vars == << pageVars, codecVars, labelVars, refVars, shVars >>

\* ------------------------------------------------------------- sequences
Range(s) == { s[i] : i \in 1..Len(s) }

Includes(s, x) == \E i \in 1..Len(s) : s[i] = x

RemoveAt(s, i) == [ j \in 1..(Len(s) - 1) |-> IF j < i THEN s[j] ELSE s[j + 1] ]

Without(s, x) == SelectSeq(s, LAMBDA y : y # x)

Min(S) == CHOOSE x \in S : \A y \in S : x <= y

RECURSIVE SortedSeq(_)
SortedSeq(S) == IF S = {} THEN << >>
                ELSE << Min(S) >> \o SortedSeq(S \ { Min(S) })

IsAscending(s) == \A i, j \in 1..Len(s) : i < j => s[i] < s[j]

\* ----------------------------------------------------- objects and JSON
\* A JS object with boolean values: the sequence of its <<key, value>>
\* properties in insertion order.
Undefined == "undefined"

HasProp(o, k) == \E i \in 1..Len(o) : o[i][1] = k

GetProp(o, k) == IF HasProp(o, k)
                 THEN (CHOOSE p \in Range(o) : p[1] = k)[2]
                 ELSE Undefined

SetProp(o, k, v) == IF HasProp(o, k)
                    THEN [ i \in 1..Len(o) |-> IF o[i][1] = k THEN << k, v >> ELSE o[i] ]
                    ELSE Append(o, << k, v >>)

DeleteProp(o, k) == SelectSeq(o, LAMBDA p : p[1] # k)

\* JSON text is a sequence of tokens.
Tok(t, k, v) == [ t |-> t, k |-> k, v |-> v ]
LBrace == Tok("{", 0, "")
RBrace == Tok("}", 0, "")

JSONstringify(o) ==
    << LBrace >>
    \o [ i \in 1..Len(o) |-> Tok("member", o[i][1], IF o[i][2] THEN "true" ELSE "false") ]
    \o << RBrace >>

JSONvalid(text) ==
    /\ Len(text) >= 2
    /\ text[1] = LBrace
    /\ text[Len(text)] = RBrace
    /\ \A i \in 2..(Len(text) - 1) : text[i].t = "member" /\ text[i].v \in {"true", "false"}

JSONparse(text) ==
    [ i \in 1..(Len(text) - 2) |-> << text[i + 1].k, text[i + 1].v = "true" >> ]

\* localStorage item: absent, or a string (a token sequence; << >> is "").
Absent     == [ present |-> FALSE, value |-> << >> ]
Stored(t)  == [ present |-> TRUE, value |-> t ]
CorruptText == << LBrace >>

\* localStorage.getItem("expandedItems") || "{}"
getItemOrEmpty(ls) == IF ls.present /\ ls.value # << >>
                      THEN ls.value
                      ELSE JSONstringify(<< >>)


\* ------------------------------------------------------------ card view
Statuses == {"started", "processed", "done"}

TextStarted   == "Received signal. Data logging started."
TextProcessed == "Data logging finished. Start cleaning process."
TextDone      == "Cleaned data saved. Insights is ready."

\* element.style.backgroundColor returns the CSSOM serialisation of the
\* colour that was assigned, not the assigned text.
CssSerialize(c) ==
    CASE c = "#780606" -> "rgb(120, 6, 6)"
      [] c = "#2e6930" -> "rgb(46, 105, 48)"
      [] c = "#8a00c2" -> "rgb(138, 0, 194)"
      [] c = "#ccc"    -> "rgb(204, 204, 204)"
      [] OTHER         -> ""

\* A card: the text of its .status div, its inline background colour, and
\* whether it holds the .actions div, the expand section (button and
\* #expand-key div) and the class "show" on that section.
NoCard == [ text |-> "", bg |-> "", actions |-> FALSE, expand |-> FALSE, show |-> FALSE ]

HasCard(cont, k) == Includes(cont, k)

Mut(kind, k) == [ kind |-> kind, key |-> k ]

\* expandedItems[key] === true (A, line 28); expandedItems[key] used as a
\* condition (B, lines 207 and 241): the same for a map of booleans.
isExpanded(o, k) == HasProp(o, k) /\ GetProp(o, k)

\* currentKeys.find(key => !previousKeys.includes(key)); 0 is undefined.
RECURSIVE Find(_, _)
Find(cur, prev) ==
    IF cur = << >> THEN 0
    ELSE IF ~Includes(prev, Head(cur)) THEN Head(cur)
    ELSE Find(Tail(cur), prev)

newlyAddedOf(cur, prev) == Find(cur, prev)

\* ---- revision A, renderEvents, lines 19-107 -------------------------
\* the three-way branch of lines 50-76 on a new card
createdTextA(st) ==
    CASE st = "started"   -> TextStarted
      [] st = "processed" -> TextProcessed
      [] st = "done"      -> TextDone
      [] OTHER            -> ""

createdColorA(st) ==
    CASE st = "started"   -> "#780606"
      [] st = "processed" -> "#2e6930"
      [] st = "done"      -> "#8a00c2"
      [] OTHER            -> "#ccc"

\* the ternaries of lines 86-90 and 96-100 on an existing card
newStatusA(st) ==
    IF st = "done" THEN TextDone
    ELSE IF st = "processed" THEN TextProcessed
    ELSE TextStarted

bgColorA(st) ==
    IF st = "done" THEN "#8a00c2"
    ELSE IF st = "processed" THEN "#2e6930"
    ELSE "#780606"

\* one iteration of currentKeys.forEach, lines 25-106; v is the view
\* [container, card, mut]
renderKeyA(v, st, k, newlyAdded, exp) ==
    IF ~HasCard(v.container, k)
    THEN [ container |-> Append(v.container, k),
           card      |-> [ v.card EXCEPT ![k] =
                             [ text    |-> createdTextA(st),
                               bg      |-> CssSerialize(createdColorA(st)),
                               actions |-> TRUE,
                               expand  |-> (st = "done"),
                               show    |-> (st = "done" /\ isExpanded(exp, k)) ] ],
           mut       |-> v.mut
                           \cup { Mut("create", k), Mut("text", k), Mut("color", k) }
                           \cup (IF st = "done" THEN { Mut("attach", k) } ELSE {})
                           \cup (IF k = newlyAdded /\ st = "done"
                                 THEN { Mut("scroll", k) } ELSE {}) ]
    ELSE LET writeText  == v.card[k].text # newStatusA(st)
             writeColor == v.card[k].bg # bgColorA(st)
         IN  [ container |-> v.container,
               card      |-> [ v.card EXCEPT
                                 ![k].text = IF writeText THEN newStatusA(st) ELSE @,
                                 ![k].bg   = IF writeColor
                                             THEN CssSerialize(bgColorA(st)) ELSE @ ],
               mut       |-> v.mut
                               \cup (IF writeText THEN { Mut("text", k) } ELSE {})
                               \cup (IF writeColor THEN { Mut("color", k) } ELSE {}) ]

RECURSIVE forEachA(_, _, _, _, _)
forEachA(v, snap, keys, newlyAdded, exp) ==
    IF keys = << >> THEN v
    ELSE forEachA(renderKeyA(v, snap[Head(keys)], Head(keys), newlyAdded, exp),
                  snap, Tail(keys), newlyAdded, exp)

renderEvents(v, snap, prev, exp) ==
    LET currentKeys == SortedSeq(DOMAIN snap)
        newlyAdded  == newlyAddedOf(currentKeys, prev)
    IN  forEachA(v, snap, currentKeys, newlyAdded, exp)

\* ---- revision B, lines 169-280 --------------------------------------
statusTextB(st) ==
    CASE st = "started"   -> TextStarted
      [] st = "processed" -> TextProcessed
      [] st = "done"      -> TextDone
      [] OTHER            -> ""

colorB(st) ==
    CASE st = "started"   -> "#780606"
      [] st = "processed" -> "#2e6930"
      [] st = "done"      -> "#8a00c2"
      [] OTHER            -> "#ccc"

\* updateCardStatus, lines 259-280: looks the card up in the document and
\* returns when it is not there, else writes text and colour.
updateCardStatus(v, k, st) ==
    IF ~HasCard(v.container, k) THEN v
    ELSE [ container |-> v.container,
           card      |-> [ v.card EXCEPT ![k].text = statusTextB(st),
                                         ![k].bg   = CssSerialize(colorB(st)) ],
           mut       |-> v.mut \cup { Mut("text", k), Mut("color", k) } ]

\* A createCard that does not seed the class "show" from expandedItems.
createCardCollapsed(v, k, st, exp) ==
    LET built == [ container |-> v.container,
                   card      |-> [ v.card EXCEPT ![k] =
                                     [ text    |-> "",
                                       bg      |-> "",
                                       actions |-> TRUE,
                                       expand  |-> (st = "done"),
                                       show    |-> FALSE ] ],
                   mut       |-> v.mut \cup { Mut("create", k) }
                                   \cup (IF st = "done" THEN { Mut("attach", k) } ELSE {}) ]
    IN  updateCardStatus(built, k, st)

\* createCard, lines 200-253: builds the element; line 251 calls
\* updateCardStatus while the element is not yet in the document.
createCard(v, k, st, exp) ==
    LET built == [ container |-> v.container,
                   card      |-> [ v.card EXCEPT ![k] =
                                     [ text    |-> "",
                                       bg      |-> "",
                                       actions |-> TRUE,
                                       expand  |-> (st = "done"),
                                       show    |-> (st = "done" /\ isExpanded(exp, k)) ] ],
                   mut       |-> v.mut \cup { Mut("create", k) }
                                   \cup (IF st = "done" THEN { Mut("attach", k) } ELSE {}) ]
    IN  updateCardStatus(built, k, st)

\* An iteration that creates a card without looking for an existing one.
fetchKeyBNoLookup(v, st, k, newlyAdded, exp) ==
    LET c == createCard(v, k, st, exp)
    IN  [ container |-> Append(c.container, k),
          card      |-> c.card,
          mut       |-> c.mut \cup (IF k = newlyAdded /\ st = "done"
                                    THEN { Mut("scroll", k) } ELSE {}) ]

\* one iteration of currentKeys.forEach, lines 178-193
fetchKeyB(v, st, k, newlyAdded, exp) ==
    IF ~HasCard(v.container, k)
    THEN LET c == createCard(v, k, st, exp)
         IN  [ container |-> Append(c.container, k),
               card      |-> c.card,
               mut       |-> c.mut \cup (IF k = newlyAdded /\ st = "done"
                                         THEN { Mut("scroll", k) } ELSE {}) ]
    ELSE updateCardStatus(v, k, st)

RECURSIVE forEachB(_, _, _, _, _)
forEachB(v, snap, keys, newlyAdded, exp) ==
    IF keys = << >> THEN v
    ELSE forEachB(fetchKeyB(v, snap[Head(keys)], Head(keys), newlyAdded, exp),
                  snap, Tail(keys), newlyAdded, exp)

\* fetchEvents after its two awaits, lines 172-193
fetchEvents(v, snap, prev, exp) ==
    LET currentKeys == SortedSeq(DOMAIN snap)
        newlyAdded  == newlyAddedOf(currentKeys, prev)
    IN  forEachB(v, snap, currentKeys, newlyAdded, exp)


\* ------------------------------------------------------ formatTimestamp
\* The text of a key is a sequence of tokens: the separators "T" and "-",
\* "d" for a run of digits, "x" for a run of characters that no date-time
\* text holds.
TsTokens == { "T", "-", "d", "x" }

TsKeys == UNION { [ 1..n -> TsTokens ] : n \in 0..MaxTsLen }

\* "not-a-timestamp"
NotATimestamp == << "x", "-", "x", "-", "x" >>

\* String.prototype.split: the parts of s between the occurrences of sep
RECURSIVE Split(_, _)
Split(s, sep) ==
    IF \E i \in 1..Len(s) : s[i] = sep
    THEN LET i == Min({ j \in 1..Len(s) : s[j] = sep })
         IN  << SubSeq(s, 1, i - 1) >> \o Split(SubSeq(s, i + 1, Len(s)), sep)
    ELSE << s >>

\* lines 124 / 323: `${datePart}T${timePart[0]}:${timePart[1]}:${timePart[2]}`
Formatted(datePart, timePart) ==
    datePart \o << "T" >> \o timePart[1] \o << ":" >> \o timePart[2]
             \o << ":" >> \o timePart[3]

\* lines 125-126 / 324-325: new Date(formatted) and isNaN(dt.getTime()).
\* A text with an empty field or with characters no date-time text holds
\* is an Invalid Date; a text of digit fields is a date or not, by the
\* values of its digits (month 13, hour 25).
DateVerdicts(formatted) ==
    LET fields == Split(formatted, "T") \o Split(Split(formatted, "T")[2], ":")
    IN  IF \/ "x" \in Range(formatted)
           \/ \E i \in { 1, 3, 4, 5 } : fields[i] = << >>
        THEN { "NaN" }
        ELSE { "valid", "NaN" }

\* lines 128-130 / 327-329: `${timeStr} ${dateStr}`
LocaleText == << "toLocaleTimeString", " ", "toLocaleDateString" >>

Throw(msg)  == [ threw |-> TRUE, value |-> << msg >> ]
Return(val) == [ threw |-> FALSE, value |-> val ]

\* What new Date(formatted) can come to for a key; "none" when the call
\* does not get as far as line 125 / 324.
Verdicts(norm_ts) ==
    LET parts == Split(norm_ts, "T")
    IN  IF Len(parts) # 2 THEN { "none" }
        ELSE IF Len(Split(parts[2], "-")) < 3 THEN { "none" }
        ELSE DateVerdicts(Formatted(parts[1], Split(parts[2], "-")))

\* The try block, lines 113-130 / 316-329.
tryBlock(norm_ts, verdict) ==
    LET parts == Split(norm_ts, "T")
    IN  IF Len(parts) # 2 THEN Throw("Invalid format")
        ELSE LET timePart == Split(parts[2], "-")
             IN  IF Len(timePart) < 3 THEN Throw("Incomplete time")
                 ELSE IF verdict = "NaN" THEN Throw("Invalid date")
                 ELSE Return(LocaleText)

\* A formatTimestamp without its try/catch: the throw reaches the caller.
formatTimestampNoCatch(norm_ts, verdict) ==
    LET r == tryBlock(norm_ts, verdict)
    IN  IF r.threw THEN [ state |-> "thrown", value |-> r.value ]
        ELSE [ state |-> "returned", value |-> r.value ]

\* formatTimestamp, lines 112-135 / 315-334 (the same text twice)
formatTimestamp(norm_ts, verdict) ==
    LET r == tryBlock(norm_ts, verdict)
    IN  IF r.threw THEN [ state |-> "returned", value |-> norm_ts ]
        ELSE [ state |-> "returned", value |-> r.value ]

\* -------------------------------------------------- artifact references
\* The text of a key is a sequence of tokens: the characters ":", ".",
\* " " and "/", and "d" for a run of any other characters.
RefTokens == { ":", ".", " ", "/", "d" }

RefKeys == UNION { [ 1..n -> RefTokens ] : n \in 0..MaxRefLen }

\* String.prototype.replace with a global pattern that matches one
\* character of the set from
ReplaceAll(s, from, to) == [ i \in 1..Len(s) |-> IF s[i] \in from THEN to ELSE s[i] ]

\* line 27: key.replace(/[:.]/g, "-")
safeKeyA(key) == ReplaceAll(key, { ":", "." }, "-")

\* sanitizeFilename, lines 340-342 (and 13-15, the same text)
sanitizeFilename(ts) ==
    ReplaceAll(ReplaceAll(ReplaceAll(ts, { ":" }, "-"), { " " }, "T"), { "/" }, "-")

\* line 205: const safeKey = sanitizeFilename(key)
safeKeyB(key) == sanitizeFilename(key)

\* lines 72-73 / 244-245: `/plots/heatmap_${safeKey}.png`
PlotRef(name, safeKey) == << "/plots/", name, "_" >> \o safeKey \o << ".png" >>

\* What a done card is built with: its id (lines 34, 202), the key of
\* the expandedItems lookup (28, 207), the key its X button hands to
\* removeItem and so to the DELETE (41, 159; 213, 308), and the two plots.
buildCard(r, key) ==
    LET safeKey == IF r = "A" THEN safeKeyA(key) ELSE safeKeyB(key)
    IN  [ built   |-> TRUE,
          id      |-> key,
          lookup  |-> key,
          remove  |-> key,
          heatmap |-> PlotRef("heatmap", safeKey),
          trend   |-> PlotRef("trend", safeKey) ]

\* ---------------------------------------------------------- page script
EmptySnap == [ k \in {} |-> "started" ]
NoSnap    == [ k \in {0} |-> "none" ]

Op(op, k, snap) == [ op |-> op, key |-> k, snap |-> snap ]

\* Line 1 / 166: JSON.parse throws on text that is not JSON; the throw is
\* at the top level of the script, so nothing after it runs.
loadOk(ls) == JSONvalid(getItemOrEmpty(ls))

loadExpandedItems(ls) == IF loadOk(ls) THEN JSONparse(getItemOrEmpty(ls)) ELSE << >>

\* lines 163-164 / 346-347: the first fetchEvents() of a page that runs
firstFetch(ok, ev) == IF ok THEN << ev >> ELSE << >>

\* ---- backend (GET /events, DELETE /events/remove/{key}) --------------
\* The page sees the backend only through the responses of GET /events, so
\* the backend moves when it answers one: since its last answer it has
\* issued new events (each key later than every key issued before), moved
\* events forward (started, processed, done) and handled some of the
\* DELETE requests sent to it, while others failed.
Rank(st) == CASE st = "started" -> 1 [] st = "processed" -> 2 [] st = "done" -> 3

Backend(ev, iss, pend) == [ events |-> ev, issued |-> iss, pending |-> pend ]

\* H: the keys whose DELETE requests have been handled or have failed;
\* D: the keys among them that the backend deleted.
\* cap: the number of keys the backend issues at most.
BackendNext(ev, iss, pend, cap) ==
    UNION { UNION { { Backend(ev2, iss2, [ k \in Keys |-> IF k \in H THEN 0 ELSE pend[k] ]) :
                        ev2 \in { f \in [ (DOMAIN ev \ D) \cup ((iss + 1)..iss2) -> Statuses ] :
                                    \A k \in DOMAIN ev \ D : Rank(f[k]) >= Rank(ev[k]) } }
                    : D \in SUBSET (H \cap DOMAIN ev), iss2 \in iss..cap }
            : H \in SUBSET { k \in Keys : pend[k] > 0 } }

\* formatTimestamp is not being looked at.
CodecIdle ==
    /\ tsKey = << >>
    /\ tsDate = "none"
    /\ tsOut = [ state |-> "idle", value |-> << >> ]

\* No label has been edited.
LabelsIdle ==
    /\ labelOverride = << >>
    /\ labelStore = << >>
    /\ label = << >>

\* No card is being built for its artifact references.
NotBuilt == [ built |-> FALSE, id |-> << >>, lookup |-> << >>, remove |-> << >>,
              heatmap |-> << >>, trend |-> << >> ]

RefIdle ==
    /\ refKey = << >>
    /\ refOut = NotBuilt

\* upload.sh is not running.
ShIdle ==
    /\ shPc = "off"
    /\ shIter = 0
    /\ shFound = FALSE
    /\ shConnected = FALSE
    /\ shCalls = 0
    /\ shFiles = 0
    /\ shCodes = << >>

\* The page is not being looked at.
PageClosed ==
    /\ events = EmptySnap
    /\ issued = 0
    /\ inflight = << >>
    /\ pending = [ k \in Keys |-> 0 ]
    /\ localStorage = Absent
    /\ running = FALSE
    /\ expandedItems = << >>
    /\ previousKeys = << >>
    /\ container = << >>
    /\ card = [ k \in Keys |-> NoCard ]
    /\ mut = {}
    /\ lastOp = Op("load", 0, NoSnap)
    /\ removed = {}
    /\ nOps = 0

PageIdle ==
    /\ rev = "B"
    /\ PageClosed

\* The page is opened: the script runs its top-level statements.
Open(cap) ==
    /\ rev \in Revs
    /\ localStorage \in { Absent, Stored(CorruptText) }
    /\ \E b \in BackendNext(EmptySnap, 0, [ k \in Keys |-> 0 ], cap) :
         /\ events = b.events
         /\ issued = b.issued
         /\ pending = b.pending
    /\ running = loadOk(localStorage)
    /\ expandedItems = loadExpandedItems(localStorage)
    /\ inflight = firstFetch(running, events)
    /\ previousKeys = << >>
    /\ container = << >>
    /\ card = [ k \in Keys |-> NoCard ]
    /\ mut = {}
    /\ lastOp = Op("load", 0, NoSnap)
    /\ removed = {}
    /\ nOps = 0
    /\ CodecIdle
    /\ LabelsIdle
    /\ RefIdle
    /\ ShIdle

Init == Open(MaxKey)

\* ---- polling ---------------------------------------------------------
\* setInterval(fetchEvents, 1000): a tick sends GET /events whether or not
\* earlier requests are outstanding; the response carries the events the
\* backend holds when it answers.
fetchTick(cap) ==
    /\ running
    /\ nOps < MaxOps
    /\ Len(inflight) < MaxInflight
    /\ \E b \in BackendNext(events, issued, pending, cap) :
         /\ events' = b.events
         /\ issued' = b.issued
         /\ pending' = b.pending
    /\ inflight' = Append(inflight, events')
    /\ nOps' = nOps + 1
    /\ UNCHANGED << codecVars, labelVars, refVars, shVars >>
    /\ UNCHANGED << rev, localStorage, running, expandedItems, previousKeys,
                    container, card, mut, lastOp, removed >>

Tick == fetchTick(MaxKey)

\* A reconciliation that first drops the cards of the keys the snapshot
\* omits, as one that builds #log-container anew from the snapshot does.
reconcileRebuilds(r, v, snap, prev, exp) ==
    LET kept == [ container |-> SelectSeq(v.container, LAMBDA k : k \in DOMAIN snap),
                  card      |-> [ k \in Keys |-> IF k \in DOMAIN snap THEN v.card[k]
                                                 ELSE NoCard ],
                  mut       |-> v.mut ]
    IN  IF r = "A" THEN renderEvents(kept, snap, prev, exp)
        ELSE fetchEvents(kept, snap, prev, exp)

\* What the page does with a response: renderEvents(data) in revision A,
\* the body of fetchEvents in revision B.
reconcile(r, v, snap, prev, exp) ==
    IF r = "A" THEN renderEvents(v, snap, prev, exp)
    ELSE fetchEvents(v, snap, prev, exp)

\* A Respond that evicts the expandedItems entries of the keys the
\* snapshot omits, and stores the map when it evicted one.
RespondPrunes(i) ==
    /\ running
    /\ i \in 1..Len(inflight)
    /\ inflight' = RemoveAt(inflight, i)
    /\ lastOp' = Op("render", 0, inflight[i])
    /\ previousKeys' = SortedSeq(DOMAIN inflight[i])
    /\ expandedItems' = SelectSeq(expandedItems, LAMBDA p : p[1] \in DOMAIN inflight[i])
    /\ localStorage' = IF expandedItems' = expandedItems THEN localStorage
                       ELSE Stored(JSONstringify(expandedItems'))
    /\ UNCHANGED << codecVars, labelVars, refVars, shVars >>
    /\ UNCHANGED << rev, events, issued, pending, running, removed, nOps >>
    /\ LET v == reconcile(rev, [ container |-> container, card |-> card, mut |-> {} ],
                          inflight[i], previousKeys, expandedItems)
       IN  /\ container' = v.container
           /\ card' = v.card
           /\ mut' = v.mut

\* A Respond with the staleness check the script lacks: a response that
\* is not the answer to the latest request is dropped, not reconciled.
RespondLatestOnly(i) ==
    /\ running
    /\ i \in 1..Len(inflight)
    /\ inflight' = RemoveAt(inflight, i)
    /\ lastOp' = Op("render", 0, inflight[i])
    /\ UNCHANGED << codecVars, labelVars, refVars, shVars >>
    /\ UNCHANGED << rev, events, issued, pending, localStorage, running, expandedItems,
                    removed, nOps >>
    /\ LET fresh == inflight[i] = events
           v == reconcile(rev, [ container |-> container, card |-> card, mut |-> {} ],
                          inflight[i], previousKeys, expandedItems)
       IN  /\ previousKeys' = IF fresh THEN SortedSeq(DOMAIN inflight[i]) ELSE previousKeys
           /\ container' = IF fresh THEN v.container ELSE container
           /\ card' = IF fresh THEN v.card ELSE card
           /\ mut' = IF fresh THEN v.mut ELSE {}

\* A response arrives (in any order) and the rest of fetchEvents runs.
Respond(i) ==
    /\ running
    /\ i \in 1..Len(inflight)
    /\ inflight' = RemoveAt(inflight, i)
    /\ lastOp' = Op("render", 0, inflight[i])
    /\ previousKeys' = SortedSeq(DOMAIN inflight[i])
    /\ UNCHANGED << codecVars, labelVars, refVars, shVars >>
    /\ UNCHANGED << rev, events, issued, pending, localStorage, running, expandedItems,
                    removed, nOps >>
    /\ LET v == reconcile(rev, [ container |-> container, card |-> card, mut |-> {} ],
                          inflight[i], previousKeys, expandedItems)
       IN  /\ container' = v.container
           /\ card' = v.card
           /\ mut' = v.mut

\* A failed tick that resets what the page has drawn and remembered, as
\* a fetchEvents that assigned previousKeys and emptied #log-container
\* before its awaits would.
FetchFailsResets ==
    /\ running
    /\ nOps < MaxOps
    /\ nOps' = nOps + 1
    /\ lastOp' = Op("fetchFails", 0, NoSnap)
    /\ previousKeys' = << >>
    /\ container' = << >>
    /\ card' = [ k \in Keys |-> NoCard ]
    /\ UNCHANGED << codecVars, labelVars, refVars, shVars >>
    /\ UNCHANGED << rev, events, issued, inflight, pending, localStorage, running,
                    expandedItems, mut, removed >>

\* A tick whose fetch() or res.json() rejects: fetchEvents ends at its
\* await (nothing catches the rejection, the interval goes on).
FetchFails ==
    /\ running
    /\ nOps < MaxOps
    /\ nOps' = nOps + 1
    /\ lastOp' = Op("fetchFails", 0, NoSnap)
    /\ UNCHANGED << codecVars, labelVars, refVars, shVars >>
    /\ UNCHANGED << rev, events, issued, inflight, pending, localStorage, running,
                    expandedItems, previousKeys, container, card, mut, removed >>

\* ---- user operations -------------------------------------------------
\* A toggleExpand that calls localStorage.setItem before it assigns
\* expandedItems[key]: the stored map lags one toggle behind.
toggleExpandStale(k) ==
    /\ running
    /\ nOps < MaxOps
    /\ HasCard(container, k) /\ card[k].expand
    /\ LET showing == card[k].show
       IN  /\ card' = [ card EXCEPT ![k].show = ~showing ]
           /\ expandedItems' = SetProp(expandedItems, k, ~showing)
    /\ localStorage' = Stored(JSONstringify(expandedItems))
    /\ mut' = {}
    /\ lastOp' = Op("toggleExpand", k, NoSnap)
    /\ nOps' = nOps + 1
    /\ UNCHANGED << codecVars, labelVars, refVars, shVars >>
    /\ UNCHANGED << rev, events, issued, inflight, pending, running, previousKeys,
                    container, removed >>

\* toggleExpand, lines 139-150 and 286-297 (the same text twice); it is
\* the onclick of the expand button, which sits next to #expand-key.
toggleExpand(k) ==
    /\ running
    /\ nOps < MaxOps
    /\ HasCard(container, k) /\ card[k].expand
    /\ LET showing == card[k].show
       IN  /\ card' = [ card EXCEPT ![k].show = ~showing ]
           /\ expandedItems' = SetProp(expandedItems, k, ~showing)
    /\ localStorage' = Stored(JSONstringify(expandedItems'))
    /\ mut' = {}
    /\ lastOp' = Op("toggleExpand", k, NoSnap)
    /\ nOps' = nOps + 1
    /\ UNCHANGED << codecVars, labelVars, refVars, shVars >>
    /\ UNCHANGED << rev, events, issued, inflight, pending, running, previousKeys,
                    container, removed >>

\* removeItem of revision A, lines 154-160: removes the parent of
\* #expand-key, which is the .actions div of the card.
removeItemA(cont, cd, k) ==
    [ container |-> cont,
      card      |-> IF HasCard(cont, k) /\ cd[k].expand
                    THEN [ cd EXCEPT ![k].actions = FALSE, ![k].expand = FALSE,
                                     ![k].show = FALSE ]
                    ELSE cd ]

\* removeItem of revision B, lines 303-309: removes #card-key.
removeItemB(cont, cd, k) ==
    [ container |-> Without(cont, k),
      card      |-> [ cd EXCEPT ![k] = NoCard ] ]

\* A removeItem without its localStorage.setItem: the entry is deleted in
\* memory only.
removeItemUnsaved(k) ==
    /\ running
    /\ nOps < MaxOps
    /\ HasCard(container, k)
    /\ LET v == IF rev = "A" THEN removeItemA(container, card, k)
                ELSE removeItemB(container, card, k)
       IN  /\ container' = v.container
           /\ card' = v.card
    /\ expandedItems' = DeleteProp(expandedItems, k)
    /\ pending' = [ pending EXCEPT ![k] = @ + 1 ]
    /\ removed' = removed \cup { k }
    /\ mut' = {}
    /\ lastOp' = Op("removeItem", k, NoSnap)
    /\ nOps' = nOps + 1
    /\ UNCHANGED << codecVars, labelVars, refVars, shVars >>
    /\ UNCHANGED << rev, events, issued, inflight, running, previousKeys, localStorage >>

\* removeItem is the onclick of the X button of a card.
removeItem(k) ==
    /\ running
    /\ nOps < MaxOps
    /\ HasCard(container, k)
    /\ LET v == IF rev = "A" THEN removeItemA(container, card, k)
                ELSE removeItemB(container, card, k)
       IN  /\ container' = v.container
           /\ card' = v.card
    /\ expandedItems' = DeleteProp(expandedItems, k)
    /\ localStorage' = Stored(JSONstringify(expandedItems'))
    /\ pending' = [ pending EXCEPT ![k] = @ + 1 ]
    /\ removed' = removed \cup { k }
    /\ mut' = {}
    /\ lastOp' = Op("removeItem", k, NoSnap)
    /\ nOps' = nOps + 1
    /\ UNCHANGED << codecVars, labelVars, refVars, shVars >>
    /\ UNCHANGED << rev, events, issued, inflight, running, previousKeys >>

\* The user reloads the page: the document and the script state are new,
\* localStorage stays, the responses of the old page are dropped.
Reload ==
    /\ nOps < MaxOps
    /\ nOps' = nOps + 1
    /\ running' = loadOk(localStorage)
    /\ expandedItems' = loadExpandedItems(localStorage)
    /\ previousKeys' = << >>
    /\ container' = << >>
    /\ card' = [ k \in Keys |-> NoCard ]
    /\ mut' = {}
    /\ lastOp' = Op("load", 0, NoSnap)
    /\ removed' = {}
    /\ UNCHANGED << codecVars, labelVars, refVars, shVars >>
    /\ UNCHANGED << rev, localStorage >>
    /\ \E b \in BackendNext(events, issued, pending, MaxKey) :
         /\ events' = b.events
         /\ issued' = b.issued
         /\ pending' = b.pending
    /\ inflight' = firstFetch(running', events')

Next ==
    \/ Tick
    \/ \E i \in 1..MaxInflight : Respond(i)
    \/ FetchFails
    \/ \E k \in Keys : toggleExpand(k)
    \/ \E k \in Keys : removeItem(k)
    \/ Reload

Spec == Init /\ [][Next]_vars

\* ---- a page left alone ------------------------------------------------
\* Nobody touches the page and every response arrives before the next
\* request is answered; the backend issues up to MaxPollKey keys.
InitPolls == Open(MaxPollKey)

PollTick == fetchTick(MaxPollKey)

PollRespond == Respond(1)

NextPolls == PollTick \/ PollRespond

SpecPolls == InitPolls /\ [][NextPolls]_vars

\* ---- formatTimestamp on its own --------------------------------------
\* createCard and renderEvents call formatTimestamp(key) for the key of a
\* new card (lines 37, 206); here it is called on any key text.
InitCodec ==
    /\ PageIdle
    /\ LabelsIdle
    /\ RefIdle
    /\ ShIdle
    /\ tsKey \in TsKeys
    /\ tsDate = "none"
    /\ tsOut = [ state |-> "idle", value |-> << >> ]

Decode ==
    /\ tsOut.state = "idle"
    /\ \E v \in Verdicts(tsKey) :
         /\ tsDate' = v
         /\ tsOut' = formatTimestamp(tsKey, v)
    /\ UNCHANGED << pageVars, labelVars, refVars, shVars, tsKey >>

NextCodec == Decode

SpecCodec == InitCodec /\ [][NextCodec]_vars

\* ---- label edit mode ---------------------------------------------------
\* The label field of a card (.icon-edit, .label-input in styles.css).
\* A text is a sequence of characters, " " or "a".
Inputs == UNION { [ 1..n -> { " ", "a" } ] : n \in 0..MaxInput }

RECURSIVE Trim(_)
Trim(s) ==
    IF s = << >> THEN s
    ELSE IF Head(s) = " " THEN Trim(Tail(s))
    ELSE IF s[Len(s)] = " " THEN Trim(SubSeq(s, 1, Len(s) - 1))
    ELSE s

\* What a card displays as its label: decode(key), or a text.
Decoded(k) == [ from |-> "decode", key |-> k, text |-> << >> ]
Typed(t)   == [ from |-> "text", key |-> 0, text |-> t ]

LabelKeys == 1..MaxKey

\* A page that displays the cards of LabelKeys, all done, none of them
\* expanded or all of them.
InitLabels ==
    /\ CodecIdle
    /\ RefIdle
    /\ ShIdle
    /\ rev \in Revs
    /\ events = [ k \in LabelKeys |-> "done" ]
    /\ issued = MaxKey
    /\ inflight = << >>
    /\ pending = [ k \in Keys |-> 0 ]
    /\ \E E \in { {}, LabelKeys } :
         expandedItems = [ i \in 1..Cardinality(E) |-> << SortedSeq(E)[i], TRUE >> ]
    /\ localStorage = Stored(JSONstringify(expandedItems))
    /\ running = TRUE
    /\ previousKeys = SortedSeq(LabelKeys)
    /\ LET v == reconcile(rev, [ container |-> << >>,
                                 card |-> [ k \in Keys |-> NoCard ], mut |-> {} ],
                          events, << >>, expandedItems)
       IN  /\ container = v.container
           /\ card = v.card
           /\ mut = v.mut
    /\ lastOp = Op("render", 0, events)
    /\ removed = {}
    /\ nOps = 0
    /\ labelOverride = << >>
    /\ labelStore = << >>
    /\ label = [ k \in LabelKeys |-> Decoded(k) ]

\* A commit that draws the labels of the other cards again from decode.
commitLabelRedrawsAll(k, input) ==
    /\ nOps < MaxOps
    /\ HasCard(container, k)
    /\ LET t == Trim(input)
       IN  IF t = << >>
           THEN /\ label' = [ j \in LabelKeys |-> Decoded(j) ]
                /\ UNCHANGED << labelOverride, labelStore >>
           ELSE /\ labelOverride' = SetProp(labelOverride, k, t)
                /\ labelStore' = labelOverride'
                /\ label' = [ j \in LabelKeys |-> IF j = k THEN Typed(t) ELSE Decoded(j) ]
    /\ lastOp' = Op("commitLabel", k, input)
    /\ nOps' = nOps + 1
    /\ UNCHANGED << rev, events, issued, inflight, pending, localStorage, running,
                    expandedItems, previousKeys, container, card, mut, removed >>
    /\ UNCHANGED << codecVars, refVars, shVars >>

\* On commit: trim the input; if empty, fall back to decode(key);
\* otherwise persist the trimmed value into LabelOverride[key] and
\* re-render the label.
commitLabel(k, input) ==
    /\ nOps < MaxOps
    /\ HasCard(container, k)
    /\ LET t == Trim(input)
       IN  IF t = << >>
           THEN /\ label' = [ label EXCEPT ![k] = Decoded(k) ]
                /\ UNCHANGED << labelOverride, labelStore >>
           ELSE /\ labelOverride' = SetProp(labelOverride, k, t)
                /\ labelStore' = labelOverride'
                /\ label' = [ label EXCEPT ![k] = Typed(t) ]
    /\ lastOp' = Op("commitLabel", k, input)
    /\ nOps' = nOps + 1
    /\ UNCHANGED << rev, events, issued, inflight, pending, localStorage, running,
                    expandedItems, previousKeys, container, card, mut, removed >>
    /\ UNCHANGED << codecVars, refVars, shVars >>

NextLabels == \E k \in LabelKeys, input \in Inputs : commitLabel(k, input)

SpecLabels == InitLabels /\ [][NextLabels]_vars

\* ---- a feed that may report any status --------------------------------
\* The page takes e.status as the response gives it (lines 50-58, 86-100,
\* 267-276): the status of a record is any string, "failed" standing for
\* one that is none of started, processed, done. Nobody touches the page
\* and every response arrives before the next request is sent.
FeedStatuses == Statuses \cup { "failed" }

FeedSnaps == UNION { [ D -> FeedStatuses ] : D \in SUBSET (1..MaxFeedKey) }

InitFeed ==
    /\ CodecIdle
    /\ LabelsIdle
    /\ RefIdle
    /\ ShIdle
    /\ rev \in Revs
    /\ localStorage = Absent
    /\ running = loadOk(localStorage)
    /\ expandedItems = loadExpandedItems(localStorage)
    /\ events \in FeedSnaps
    /\ issued = MaxFeedKey
    /\ pending = [ k \in Keys |-> 0 ]
    /\ inflight = firstFetch(running, events)
    /\ previousKeys = << >>
    /\ container = << >>
    /\ card = [ k \in Keys |-> NoCard ]
    /\ mut = {}
    /\ lastOp = Op("load", 0, NoSnap)
    /\ removed = {}
    /\ nOps = 0

FeedTick ==
    /\ running
    /\ inflight = << >>
    /\ events' \in FeedSnaps
    /\ inflight' = << events' >>
    /\ UNCHANGED << codecVars, labelVars, refVars, shVars >>
    /\ UNCHANGED << rev, issued, pending, localStorage, running, expandedItems,
                    previousKeys, container, card, mut, lastOp, removed, nOps >>

FeedRespond == Respond(1)

NextFeed == FeedTick \/ FeedRespond

SpecFeed == InitFeed /\ [][NextFeed]_vars

\* ---- the card of a done record is built --------------------------------
InitRef ==
    /\ rev \in Revs
    /\ PageClosed
    /\ CodecIdle
    /\ LabelsIdle
    /\ ShIdle
    /\ refKey \in RefKeys
    /\ refOut = NotBuilt

BuildCard ==
    /\ ~refOut.built
    /\ refOut' = buildCard(rev, refKey)
    /\ UNCHANGED << pageVars, codecVars, labelVars, shVars, refKey >>

NextRef == BuildCard

SpecRef == InitRef /\ [][NextRef]_vars

\* ---- upload.sh ----------------------------------------------------------
\* The HTTP status curl writes for a file: 200, another status of the
\* server, or 000 when no response came.
HttpCodes == { "200", "500", "000" }

\* line 43: the script starts and enters while true.
InitUpload ==
    /\ PageIdle
    /\ CodecIdle
    /\ LabelsIdle
    /\ RefIdle
    /\ shPc = "scan"
    /\ shIter = 1
    /\ shFound = FALSE
    /\ shConnected = FALSE
    /\ shCalls = 0
    /\ shFiles = 0
    /\ shCodes = << >>

\* lines 45-46, 51-53: if scan_wifi; the exit status of grep -Fx on the
\* SSIDs nmcli lists.
Scan ==
    /\ shPc = "scan"
    /\ shFound' \in BOOLEAN
    /\ shConnected' = FALSE
    /\ shPc' = IF shFound' THEN "connect" ELSE "sleep"
    /\ UNCHANGED << pageVars, codecVars, labelVars, refVars, shIter, shCalls, shFiles,
                    shCodes >>

\* A connect step that goes on to upload_csv_files whatever
\* connect_home_wifi returned.
ConnectUnchecked ==
    /\ shPc = "connect"
    /\ shConnected' \in BOOLEAN
    /\ shPc' = "upload"
    /\ shCalls' = shCalls + 1
    /\ shFiles' \in 0..MaxFiles
    /\ UNCHANGED << pageVars, codecVars, labelVars, refVars, shIter, shFound, shCodes >>

\* lines 47-48 and 13-23: if connect_home_wifi; then upload_csv_files is
\* called: its for loop takes the ./*.csv files there are (a pattern that
\* matches nothing is skipped by line 28).
Connect ==
    /\ shPc = "connect"
    /\ shConnected' \in BOOLEAN
    /\ IF shConnected'
       THEN /\ shPc' = "upload"
            /\ shCalls' = shCalls + 1
            /\ shFiles' \in 0..MaxFiles
       ELSE /\ shPc' = "sleep"
            /\ UNCHANGED << shCalls, shFiles >>
    /\ UNCHANGED << pageVars, codecVars, labelVars, refVars, shIter, shFound, shCodes >>

\* lines 29-38: one file of the for loop: curl posts it and its HTTP
\* status is compared with 200; either way the loop goes on.
UploadFile ==
    /\ shPc = "upload"
    /\ shFiles > 0
    /\ \E response \in HttpCodes : shCodes' = Append(shCodes, response)
    /\ shFiles' = shFiles - 1
    /\ UNCHANGED << pageVars, codecVars, labelVars, refVars, shPc, shIter, shFound,
                    shConnected, shCalls >>

\* line 49: break, once upload_csv_files has returned.
Break ==
    /\ shPc = "upload"
    /\ shFiles = 0
    /\ shPc' = "done"
    /\ UNCHANGED << pageVars, codecVars, labelVars, refVars, shIter, shFound,
                    shConnected, shCalls, shFiles, shCodes >>

\* line 54: sleep "$POLL_INTERVAL", then the next iteration.
Sleep ==
    /\ shPc = "sleep"
    /\ shIter < MaxIter
    /\ shIter' = shIter + 1
    /\ shPc' = "scan"
    /\ UNCHANGED << pageVars, codecVars, labelVars, refVars, shFound, shConnected,
                    shCalls, shFiles, shCodes >>

NextUpload == Scan \/ Connect \/ UploadFile \/ Break \/ Sleep

SpecUpload == InitUpload /\ [][NextUpload]_vars

TypeOK ==
    /\ rev \in Revs
    /\ issued \in 0..MaxPollKey
    /\ DOMAIN events \subseteq 1..issued
    /\ \A k \in DOMAIN events : events[k] \in Statuses
    /\ Len(inflight) <= MaxInflight
    /\ Range(container) \subseteq Keys
    /\ running \in BOOLEAN

\* ------------------------------------------------------------ properties
\* A step in which a response is reconciled (the only step that takes a
\* response and spends no operation); lastOp'.snap is the snapshot.
RenderStep ==
    /\ lastOp'.op = "render"
    /\ nOps' = nOps
    /\ Len(inflight') = Len(inflight) - 1

\* A step in which removeItem(k) runs (the only step that sends a DELETE).
RemoveStep(k) ==
    /\ lastOp' = Op("removeItem", k, NoSnap)
    /\ pending'[k] > pending[k]

\* A step in which toggleExpand(k) runs (the only step that flips the
\* class "show" of a card in the document).
ToggleStep(k) ==
    /\ lastOp' = Op("toggleExpand", k, NoSnap)
    /\ HasCard(container, k) /\ HasCard(container', k)
    /\ card'[k].show # card[k].show

\* A step in which the page is loaded again, or a tick of a page that has
\* reconciled nothing yet (which leaves expandedItems as the load set it).
ReloadStep ==
    /\ lastOp' = Op("load", 0, NoSnap)
    /\ nOps' = nOps + 1
    /\ container' = << >>

\* The keys of a snapshot that are new with respect to prev and done.
Qualifying(snap, prev) ==
    { k \in DOMAIN snap : ~Includes(prev, k) /\ snap[k] = "done" }

Scrolls(m) == { x \in m : x.kind = "scroll" }

\* C1: removeItem(K) on a displayed key K removes K's card from the view,
\* removes K from expandedItems in memory and in localStorage and issues
\* exactly one DELETE for K, whatever the status of K; removeItem(K) on a
\* key that is not displayed changes nothing and issues no DELETE.
C1_RemoveItemContract ==
    [][ \A k \in Keys : RemoveStep(k) =>
          IF HasCard(container, k)
          THEN /\ ~HasCard(container', k)
               /\ ~HasProp(expandedItems', k)
               /\ localStorage'.present
               /\ ~HasProp(JSONparse(localStorage'.value), k)
               /\ pending' = [ pending EXCEPT ![k] = @ + 1 ]
          ELSE UNCHANGED << container, card, expandedItems, localStorage, pending >>
      ]_vars

\* C2: reconciliation is idempotent: when the snapshot that was reconciled
\* last is reconciled again, the second reconciliation makes no view
\* mutation (no card, no status text, no colour, no section, no scroll).
C2_Idempotent ==
    [][ (RenderStep /\ lastOp'.snap = lastOp.snap) => mut' = {} ]_vars

\* C3: when snapshot S2 follows snapshot S1 with the same keys and differs
\* from it only in the status of one key K (started to processed),
\* reconciling S2 writes only to the card of K.
C3_OnlyChangedKeyWritten ==
    [][ \A k \in Keys :
          ( /\ RenderStep
            /\ DOMAIN lastOp'.snap = DOMAIN lastOp.snap
            /\ k \in DOMAIN lastOp.snap
            /\ lastOp.snap[k] = "started"
            /\ lastOp'.snap[k] = "processed"
            /\ \A j \in DOMAIN lastOp.snap \ { k } : lastOp'.snap[j] = lastOp.snap[j] )
          => /\ \A m \in mut' : m.key = k
             /\ container' = container
             /\ \A j \in Keys \ { k } : card'[j] = card[j]
      ]_vars

\* C4: when a poll reports done for a key whose card was created while the
\* key was started or processed (so the card has no artifact section yet),
\* the reconciliation attaches the artifact section to the card.
C4_ArtifactAttachedOnDone ==
    [][ \A k \in Keys :
          ( /\ RenderStep
            /\ k \in DOMAIN lastOp'.snap
            /\ lastOp'.snap[k] = "done"
            /\ HasCard(container, k)
            /\ card[k].actions
            /\ ~card[k].expand )
          => card'[k].expand
      ]_vars

\* C5: removal is terminal: once removeItem has run on a key and the key
\* has no card, no later step of the page displays a card for it again (the
\* backend never issues a key twice), whatever poll responses arrive
\* afterwards.
C5_RemovalTerminal ==
    [][ \A k \in removed : ~HasCard(container, k) => ~HasCard(container', k) ]_vars

\* C6: a reconciliation schedules at most one scroll, only for a key that
\* is absent from the previous poll's keys and done; when two or more keys
\* are new and done, exactly one scroll fires and targets the smallest.
C6_ScrollAtMostOneNewDone ==
    [][ RenderStep =>
          LET snap == lastOp'.snap
              Q    == Qualifying(snap, previousKeys)
          IN  /\ Cardinality(Scrolls(mut')) <= 1
              /\ \A m \in Scrolls(mut') : m.key \in Q
              /\ Cardinality(Q) >= 2 => Scrolls(mut') = { Mut("scroll", Min(Q)) }
      ]_vars

\* C7: tie-break: when more than one key of a poll is new and done, a
\* scroll fires and its target is the smallest of these keys, whatever
\* other new keys sort before it.
C7_ScrollSmallestQualifying ==
    [][ RenderStep =>
          LET Q == Qualifying(lastOp'.snap, previousKeys)
          IN  Cardinality(Q) > 1 =>
                \E m \in Scrolls(mut') : m.key = Min(Q)
      ]_vars

\* C8: the cards of the view are in ascending order of their keys.
C8_DisplayOrderAscending == IsAscending(container)

\* C9: expansion round trip: right after toggleExpand expanded K, loading
\* the map from localStorage yields K expanded; a reload keeps every
\* expanded key expanded; and a done card created for an expanded key has
\* its artifact section visible.
C9_ExpansionRoundTrip ==
    [][ /\ \A k \in Keys :
             (ToggleStep(k) /\ ~card[k].show)
               => /\ isExpanded(expandedItems', k)
                  /\ loadOk(localStorage')
                  /\ isExpanded(loadExpandedItems(localStorage'), k)
        /\ ReloadStep =>
             \A k \in Keys : isExpanded(expandedItems, k) => isExpanded(expandedItems', k)
        /\ RenderStep =>
             \A k \in Keys :
               ( /\ ~HasCard(container, k)
                 /\ k \in DOMAIN lastOp'.snap
                 /\ lastOp'.snap[k] = "done"
                 /\ isExpanded(expandedItems, k) )
               => HasCard(container', k) /\ card'[k].expand /\ card'[k].show
      ]_vars

\* witness of C9: after a reload, a done card has just been created with
\* its section visible from the flag that was loaded from localStorage
C9_Witness ==
    /\ nOps >= 2
    /\ lastOp.op = "render"
    /\ \E k \in Keys : /\ Mut("create", k) \in mut
                       /\ card[k].show
                       /\ isExpanded(expandedItems, k)

\* C10: loading never fails: when the stored value is absent or is not
\* JSON, expandedItems is the empty map and the page polls.
C10_LoadNeverFails ==
    (lastOp.op = "load" /\ (~localStorage.present \/ ~JSONvalid(localStorage.value)))
      => (running /\ expandedItems = << >> /\ inflight # << >>)

\* The status text and the colour a card shows for a reported status.
ReportedText(st) ==
    CASE st = "started"   -> TextStarted
      [] st = "processed" -> TextProcessed
      [] st = "done"      -> TextDone
      [] OTHER            -> ""

ReportedColor(st) ==
    CASE st = "started"   -> CssSerialize("#780606")
      [] st = "processed" -> CssSerialize("#2e6930")
      [] st = "done"      -> CssSerialize("#8a00c2")
      [] OTHER            -> CssSerialize("#ccc")

\* A step that reconciles a stale response: it is the last one outstanding
\* and it is not the answer to the latest request (whose body is events),
\* so the later request was answered and reconciled before it.
StaleStep ==
    /\ RenderStep
    /\ inflight' = << >>
    /\ lastOp'.snap # events

\* C11: overlapping polls: a tick sends its request while earlier ones are
\* outstanding, and a response that arrives after the response of a later
\* request is reconciled all the same: the previous-key set becomes its key
\* set, every key of it has a card, and every card that was displayed
\* shows the status the stale response reports.
C11_StaleResponseWins ==
    [][ StaleStep =>
          LET snap == lastOp'.snap
          IN  /\ previousKeys' = SortedSeq(DOMAIN snap)
              /\ \A k \in DOMAIN snap :
                    /\ HasCard(container', k)
                    /\ HasCard(container, k) =>
                          /\ card'[k].text = ReportedText(snap[k])
                          /\ card'[k].bg = ReportedColor(snap[k])
      ]_vars

\* witness of C11: every response has arrived, the one reconciled last
\* reports an older status of a key than the backend holds, and the card
\* shows that older status
C11_Witness ==
    /\ lastOp.op = "render"
    /\ inflight = << >>
    /\ \E k \in DOMAIN lastOp.snap \cap DOMAIN events :
         /\ Rank(lastOp.snap[k]) < Rank(events[k])
         /\ HasCard(container, k)
         /\ card[k].text = ReportedText(lastOp.snap[k])

\* A step in which a tick fails: its fetch() or res.json() rejects.
FailStep ==
    /\ lastOp'.op = "fetchFails"
    /\ nOps' = nOps + 1
    /\ inflight' = inflight

\* C12: a tick whose fetch or whose response decoding fails leaves the
\* view, the previous-key set, the Expansion map and its stored copy as
\* they were, and the polling loop goes on running.
C12_FailedTickChangesNothing ==
    [][ FailStep =>
          /\ container' = container
          /\ card' = card
          /\ previousKeys' = previousKeys
          /\ expandedItems' = expandedItems
          /\ localStorage' = localStorage
          /\ running'
      ]_vars

\* witness of C12: a tick has failed on a page that displays a card and
\* remembers its key
C12_Witness ==
    /\ lastOp.op = "fetchFails"
    /\ running
    /\ container # << >>
    /\ previousKeys # << >>

\* A step in which the backend handles DELETE requests, or they fail.
DeleteOutcomeStep ==
    /\ \E k \in Keys : pending'[k] < pending[k]
    /\ ~ReloadStep

\* C13: removal is fire-and-forget and locally authoritative: the step
\* that sends the DELETE for K has purged K from the view, from
\* expandedItems and from the stored map; the outcome of a DELETE, success
\* or failure, changes nothing in the page; and a DELETE is sent by
\* removeItem only, once per call, never again on its own.
C13_RemovalFireAndForget ==
    [][ /\ \A k \in Keys : RemoveStep(k) =>
              /\ ~HasCard(container', k)
              /\ ~HasProp(expandedItems', k)
              /\ localStorage'.present
              /\ ~HasProp(JSONparse(localStorage'.value), k)
        /\ \A k \in Keys : pending'[k] > pending[k] =>
              /\ RemoveStep(k)
              /\ pending'[k] = pending[k] + 1
        /\ DeleteOutcomeStep =>
              UNCHANGED << container, card, expandedItems, localStorage, previousKeys,
                           running >>
      ]_vars

\* C14: reconciliation never changes the overrides: reconciling a
\* snapshot, whatever it holds or omits, leaves expandedItems and the
\* stored map as they were, and the entry of a key K leaves expandedItems
\* or the stored map only in a step in which removeItem(K) runs.
C14_ReconcileKeepsOverrides ==
    [][ /\ RenderStep => /\ expandedItems' = expandedItems
                         /\ localStorage' = localStorage
        /\ expandedItems' # expandedItems =>
              \A k \in Keys :
                HasProp(expandedItems, k) /\ ~HasProp(expandedItems', k) => RemoveStep(k)
        /\ localStorage' # localStorage =>
              \A k \in Keys :
                /\ HasProp(loadExpandedItems(localStorage), k)
                /\ ~HasProp(loadExpandedItems(localStorage'), k)
                => RemoveStep(k)
      ]_vars

\* witness of C14: a snapshot that omits a key with an Expansion entry has
\* been reconciled, and the entry is in expandedItems and in the stored map
C14_Witness ==
    /\ lastOp.op = "render"
    /\ \E k \in Keys \ DOMAIN lastOp.snap :
         /\ HasProp(expandedItems, k)
         /\ HasProp(loadExpandedItems(localStorage), k)

\* The number of occurrences of token t in s.
Count(s, t) == Cardinality({ i \in 1..Len(s) : s[i] = t })

\* The text of s after its first "T".
AfterT(s) == SubSeq(s, Min({ j \in 1..Len(s) : s[j] = "T" }) + 1, Len(s))

\* C15: formatTimestamp never throws to its caller, and it returns its
\* argument unchanged whenever the key does not split into exactly two
\* parts at "T", or the time part has fewer than three parts between
\* dashes, or the reassembled date-time is an invalid date; so
\* formatTimestamp("not-a-timestamp") is "not-a-timestamp".
C15_DecodeFallsBack ==
    /\ tsOut.state # "thrown"
    /\ tsOut.state = "returned" =>
         /\ ( \/ Count(tsKey, "T") # 1
              \/ Count(AfterT(tsKey), "-") < 2
              \/ tsDate = "NaN" ) => tsOut.value = tsKey
         /\ tsKey = NotATimestamp => tsOut.value = NotATimestamp

\* witness of C15: formatTimestamp("not-a-timestamp") has returned
C15_Witness ==
    /\ tsKey = NotATimestamp
    /\ tsOut.state = "returned"

\* A step in which the label edit of card k is committed.
CommitStep(k) ==
    /\ lastOp'.op = "commitLabel"
    /\ lastOp'.key = k
    /\ nOps' = nOps + 1

Spaces(s) == \A i \in 1..Len(s) : s[i] = " "

\* t is the text input without its leading and trailing spaces.
IsTrimOf(t, input) ==
    /\ t # << >> => t[1] # " " /\ t[Len(t)] # " "
    /\ \E i \in 0..Len(input) :
         /\ i + Len(t) <= Len(input)
         /\ SubSeq(input, i + 1, i + Len(t)) = t
         /\ Spaces(SubSeq(input, 1, i))
         /\ Spaces(SubSeq(input, i + Len(t) + 1, Len(input)))

\* The entry of key k in a map.
EntryOf(o, k) == { p \in Range(o) : p[1] = k }

\* C16: committing a label edit of key K with an input whose trimmed text
\* is empty makes the card display decode(K); otherwise the trimmed text
\* is LabelOverride[K], in memory and persisted, and the card displays it.
\* No other key's label, override, expansion flag or card changes.
C16_CommitLabel ==
    [][ \A k \in LabelKeys : CommitStep(k) =>
          /\ \E t \in Inputs :
               /\ IsTrimOf(t, lastOp'.snap)
               /\ IF t = << >>
                  THEN label'[k] = Decoded(k)
                  ELSE /\ EntryOf(labelOverride', k) = { << k, t >> }
                       /\ EntryOf(labelStore', k) = { << k, t >> }
                       /\ label'[k] = Typed(t)
          /\ \A j \in LabelKeys \ { k } :
               /\ label'[j] = label[j]
               /\ EntryOf(labelOverride', j) = EntryOf(labelOverride, j)
               /\ EntryOf(labelStore', j) = EntryOf(labelStore, j)
               /\ EntryOf(expandedItems', j) = EntryOf(expandedItems, j)
               /\ card'[j] = card[j]
          /\ container' = container
      ]_vars

\* witness of C16: an input with spaces around it has been committed on a
\* card while another card displays a committed label and is expanded
C16_Witness ==
    /\ lastOp.op = "commitLabel"
    /\ Trim(lastOp.snap) \notin { << >>, lastOp.snap }
    /\ label[lastOp.key] = Typed(Trim(lastOp.snap))
    /\ \E j \in LabelKeys \ { lastOp.key } :
         /\ label[j] # Decoded(j)
         /\ HasProp(expandedItems, j)

\* C17: after a snapshot has been reconciled, the card of every key of
\* the snapshot displays the status the snapshot reports for it (its
\* text and its colour), whatever the card displayed before, a status
\* earlier than the displayed one included.
C17_DisplayedStatusIsReported ==
    [][ RenderStep =>
          \A k \in DOMAIN lastOp'.snap :
            /\ HasCard(container', k)
            /\ card'[k].text = ReportedText(lastOp'.snap[k])
            /\ card'[k].bg = ReportedColor(lastOp'.snap[k])
      ]_vars

\* C18: after a snapshot has been reconciled, the card of a key whose
\* status is none of started, processed, done displays the neutral
\* presentation: the neutral colour and none of the three status texts.
\* It is the same whether the step created the card or updated it.
C18_UnknownStatusNeutral ==
    [][ RenderStep =>
          \A k \in DOMAIN lastOp'.snap : lastOp'.snap[k] \notin Statuses =>
            /\ HasCard(container', k)
            /\ card'[k].text \notin { TextStarted, TextProcessed, TextDone }
            /\ card'[k].bg = CssSerialize("#ccc")
      ]_vars

\* C19: reconciliation never removes a card: every card displayed before
\* a snapshot is reconciled is displayed after it, at the same place, and
\* the card of a key the snapshot omits is unchanged (its status text, its
\* colour, its artifact section and whether that is shown).
C19_OmittedKeyKeepsCard ==
    [][ RenderStep =>
          /\ Len(container') >= Len(container)
          /\ SubSeq(container', 1, Len(container)) = container
          /\ \A k \in Keys \ DOMAIN lastOp'.snap :
                HasCard(container, k) => card'[k] = card[k]
      ]_vars

\* witness of C19: a snapshot that omits a key has been reconciled and the
\* card of that key, which the user did not remove, is displayed with its
\* status and its artifact section
C19_Witness ==
    /\ lastOp.op = "render"
    /\ \E k \in Keys \ (DOMAIN lastOp.snap \cup removed) :
         /\ HasCard(container, k)
         /\ card[k].expand
         /\ card[k].text = TextDone

\* C20: write-through persistence: between operations the stored
\* Expansion map is the text of the whole map in memory (nothing is
\* stored only while the map has never been written and is empty); so it
\* is at the end of every toggleExpand and every removeItem.
C20_WriteThrough ==
    running =>
      IF localStorage.present
      THEN /\ localStorage.value = JSONstringify(expandedItems)
           /\ JSONparse(localStorage.value) = expandedItems
      ELSE expandedItems = << >>

\* witness of C20: toggleExpand has run and the map it stored has an entry
C20_Witness ==
    /\ running
    /\ lastOp.op = "toggleExpand"
    /\ HasProp(expandedItems, lastOp.key)
    /\ localStorage.present
    /\ HasProp(JSONparse(localStorage.value), lastOp.key)

\* C21: the heatmap and trend references of a done card of key K are
\* built from K with every ":" and every "." replaced by "-" and nothing
\* else changed; the card id, the Expansion lookup and the DELETE use K
\* as it is.
C21_ArtifactRefFromKey ==
    refOut.built =>
      LET safe == [ i \in 1..Len(refKey) |->
                      IF refKey[i] \in { ":", "." } THEN "-" ELSE refKey[i] ]
      IN  /\ refOut.heatmap = << "/plots/", "heatmap", "_" >> \o safe \o << ".png" >>
          /\ refOut.trend = << "/plots/", "trend", "_" >> \o safe \o << ".png" >>
          /\ refOut.id = refKey
          /\ refOut.lookup = refKey
          /\ refOut.remove = refKey

\* C22: at most one card per key: whatever the order of polls, responses,
\* toggles and removals, no two children of #log-container are cards of
\* the same key.
C22_OneCardPerKey ==
    \A i, j \in 1..Len(container) : container[i] = container[j] => i = j

\* witness of C22: a poll has been reconciled that lists a key removeItem
\* ran on, and the key has a card
C22_Witness ==
    /\ lastOp.op = "render"
    /\ \E k \in removed \cap DOMAIN lastOp.snap :
         /\ HasCard(container, k)
         /\ Cardinality({ i \in 1..Len(container) : container[i] = k }) = 1

\* C23: expansion consistency: in every state of a running page, the
\* artifact section of every displayed card that has one is visible if
\* and only if expandedItems[key] is true (no entry and false both mean
\* hidden).
C23_ExpansionConsistent ==
    running =>
      \A k \in Keys :
        (HasCard(container, k) /\ card[k].expand)
          => (card[k].show <=> isExpanded(expandedItems, k))

\* witness of C23: a card that was removed has been created again with an
\* artifact section, which is hidden, its entry being gone
C23_Witness ==
    /\ lastOp.op = "render"
    /\ \E k \in removed :
         /\ HasCard(container, k)
         /\ Mut("create", k) \in mut
         /\ card[k].expand
         /\ ~card[k].show
         /\ ~HasProp(expandedItems, k)

\* C24: the loop of upload.sh ends only after a successful upload: when
\* the script has left the loop, the home SSID was detected and the
\* connection succeeded in that iteration, and every CSV upload of it got
\* the status 200; a failed upload does not end the loop.
C24_ExitsOnlyAfterSuccessfulUpload ==
    shPc = "done" =>
      /\ shFound
      /\ shConnected
      /\ \A i \in 1..Len(shCodes) : shCodes[i] = "200"

\* C25: upload_csv_files is called at most once in a run, and only in an
\* iteration in which scan_wifi found the home SSID and connect_home_wifi
\* returned 0; an iteration in which the SSID is not found or the
\* connection fails uploads nothing and sleeps, and after the sleep the
\* loop scans again: it does not end there.
C25_UploadOnceWhenConnected ==
    [][ /\ shCalls' <= 1
        /\ shCalls' # shCalls => (shFound' /\ shConnected' /\ shPc' = "upload")
        /\ shCodes' # shCodes => (shFound' /\ shConnected' /\ shCalls' = 1)
        /\ (shPc = "scan" /\ ~shFound') =>
              (shPc' = "sleep" /\ shCalls' = shCalls /\ shCodes' = shCodes)
        /\ (shPc = "connect" /\ ~shConnected') =>
              (shPc' = "sleep" /\ shCalls' = shCalls /\ shCodes' = shCodes)
        /\ shPc = "sleep" => (shPc' = "scan" /\ shIter' = shIter + 1)
      ]_vars

\* witness of C25: the script has left the loop after one call of
\* upload_csv_files, made in a later iteration than the first
C25_Witness ==
    /\ shPc = "done"
    /\ shIter > 1
    /\ shCalls = 1
    /\ shFound
    /\ shConnected
    /\ shCodes # << >>

====
